---- MODULE Spec2Model ----
(***************************************************************************)
(* Model of src/src/server.js: an Express application whose route handlers *)
(* validate the request, make document-store calls through Mongoose models *)
(* (Spaces, Projects, Tasks) and answer with a status and a JSON body.     *)
(*                                                                         *)
(* A store call (findOne, find, save, findOneAndUpdate) is one atomic step *)
(* of the store.  A handler that makes one store call is one action (its   *)
(* validation and its response are local to the request).  The task        *)
(* comment handler makes two store calls (findOne, then save) and is two   *)
(* actions, with the request in flight in between, so requests interleave  *)
(* at the store exactly where the code awaits.                             *)
(***************************************************************************)
EXTENDS Naturals, Sequences, FiniteSets, TLC

\* ------------------------------------------------------------------ bounds
\* Requests accepted in one run of the model.
MaxReqs == 3

\* ------------------------------------------------------------- JS values
\* Values of request fields and stored fields, as tokens.
Undefined   == "undefined"    \* the key is absent from the JSON body
Null        == "null"         \* BSON null in a stored document
EmptyString == ""
EmptyArray  == "[]"           \* an array with no elements; truthy in JS

\* JS truthiness, as used by the handlers' `!x` tests.
Falsy(v) == v \in {Undefined, Null, EmptyString}

SpCodes      == {"W1", "W2"}
ProjectCodes == {"P1", "P2"}
TaskIds      == {"T1", "T2"}

VARIABLES
  spaces,         \* the Spaces collection: a set of documents
  projects,       \* the Projects collection
  tasks,          \* the Tasks collection
  nextId,         \* next ObjectId the driver hands out (documents and comments)
  pending,        \* task comment requests between their findOne and their save
  last,           \* the request answered last, with its response
  created,        \* history: [coll, code, id] of every create answered 201
  acked,          \* history: [coll, id, cid] of every comment answered 200
  nreq,           \* requests accepted so far
  omitUndefined,  \* whether the installed Mongoose strips undefined keys of $set
  faults          \* whether store calls may fail (connection loss, timeouts)

vars == <<spaces, projects, tasks, nextId, pending, last, created, acked, nreq,
          omitUndefined, faults>>

store == <<spaces, projects, tasks>>

\* ------------------------------------------------------------- the store
\* A document is a record of its schema's fields, with id for the _id the
\* driver assigns.  A comment is a record of its id and its texts; its date is
\* the server's clock at the push and is left out.  NoDoc is the null a query
\* answers when nothing matches.
NoDoc == [id |-> 0]

IsNoDoc(d) == d.id = 0

\* Model.find(filter) and Model.findOne(filter): the matching documents, and
\* one of them or null.
Matching(coll, filter) == {d \in coll : \A k \in DOMAIN filter : d[k] = filter[k]}

\* Variant: a findOne that drops its filter.
FindOneAny(coll, filter) == IF coll = {} THEN NoDoc ELSE CHOOSE d \in coll : TRUE

FindOne(coll, filter) ==
  IF Matching(coll, filter) = {} THEN NoDoc
  ELSE CHOOSE d \in Matching(coll, filter) : TRUE

\* Variant: a collection without its unique index.
DuplicateKeyNoIndex(coll, key, v) == FALSE

\* The unique index of a collection (unique: true in its schema) rejects an
\* insert whose key is already stored: E11000 duplicate key.
DuplicateKey(coll, key, v) == \E d \in coll : d[key] = v

\* Whether a store call may throw for a reason of the deployment (connection
\* loss, timeout), which sends the handler to its catch block.  A duplicate
\* key is not such a reason: it is decided by the stored documents.
FailChoices == IF faults THEN {TRUE, FALSE} ELSE {FALSE}

\* ------------------------------------------------------------- responses
Response(op, params, body, status, error, details, doc) ==
  [op |-> op, params |-> params, body |-> body, status |-> status,
   error |-> error, details |-> details, doc |-> doc]

NoParams == [SpCode |-> Undefined]
NoBody   == [none |-> Undefined]

Accept == nreq < MaxReqs /\ nreq' = nreq + 1

\* ---------------------------------------------------------------- spaces
\* GET /api/space/:SpCode
GetSpace(sp) ==
  /\ Accept
  /\ \E fail \in FailChoices :
       LET space == FindOne(spaces, [SpCode |-> sp])
           p == [SpCode |-> sp]
       IN last' = IF fail
                    THEN Response("getSpace", p, NoBody, 500,
                                  "Error fetching Space details", FALSE, NoDoc)
                  ELSE IF IsNoDoc(space)
                    THEN Response("getSpace", p, NoBody, 404, "Space not found", FALSE, NoDoc)
                  ELSE Response("getSpace", p, NoBody, 200, "", FALSE, space)
  /\ UNCHANGED <<spaces, projects, tasks, nextId, pending, created, acked,
                 omitUndefined, faults>>

SpaceCreateBodies ==
  [SpCode : SpCodes \cup {Undefined, EmptyString}, name : {"a", "b"}]
    \cup [SpCode : {"W1"}, name : {Undefined, EmptyString}]

\* The status the catch block of a create handler answers with (lines 91,
\* 129, 190).
CreateErrorStatus(op) == IF op = "createTask" THEN 500 ELSE 400

\* POST /api/space/create
CreateSpace(body) ==
  /\ Accept
  /\ IF Falsy(body.SpCode) \/ Falsy(body.name)
       THEN /\ last' = Response("createSpace", NoParams, body, 400,
                                "Missing required fields", FALSE, NoDoc)
            /\ UNCHANGED <<spaces, nextId, created>>
       ELSE \E fail \in FailChoices :
              LET newSpace == [id |-> nextId, SpCode |-> body.SpCode, name |-> body.name]
              IN IF fail \/ DuplicateKey(spaces, "SpCode", body.SpCode)
                   THEN /\ last' = Response("createSpace", NoParams, body,
                                            CreateErrorStatus("createSpace"),
                                            "Error creating Space", TRUE, NoDoc)
                        /\ UNCHANGED <<spaces, nextId, created>>
                   ELSE /\ spaces' = spaces \cup {newSpace}
                        /\ nextId' = nextId + 1
                        /\ created' = created \cup
                             {[coll |-> "Spaces", code |-> body.SpCode, id |-> nextId]}
                        /\ last' = Response("createSpace", NoParams, body, 201, "",
                                            FALSE, newSpace)
  /\ UNCHANGED <<projects, tasks, pending, acked, omitUndefined, faults>>

\* -------------------------------------------------------------- projects
ProjectFields == {"name", "description", "teamLead", "members", "status"}

\* GET /api/space/:SpCode/projects
ListProjects(sp) ==
  /\ Accept
  /\ \E fail \in FailChoices :
       last' = IF fail
                 THEN Response("listProjects", [SpCode |-> sp], NoBody, 500,
                               "Failed to fetch projects", FALSE, NoDoc)
               ELSE Response("listProjects", [SpCode |-> sp], NoBody, 200, "", FALSE,
                             [id |-> 0, list |-> Matching(projects, [SpCode |-> sp])])
  /\ UNCHANGED <<spaces, projects, tasks, nextId, pending, created, acked,
                 omitUndefined, faults>>

\* GET /api/space/:SpCode/projects/:projectCode
GetProject(sp, pc) ==
  /\ Accept
  /\ \E fail \in FailChoices :
       LET p == [SpCode |-> sp, projectCode |-> pc]
           project == FindOne(projects, p)
       IN last' = IF fail
                    THEN Response("getProject", p, NoBody, 500,
                                  "Error fetching project details", FALSE, NoDoc)
                  ELSE IF IsNoDoc(project)
                    THEN Response("getProject", p, NoBody, 404, "Project not found",
                                  FALSE, NoDoc)
                  ELSE Response("getProject", p, NoBody, 200, "", FALSE, project)
  /\ UNCHANGED <<spaces, projects, tasks, nextId, pending, created, acked,
                 omitUndefined, faults>>

\* A body with every required field of a project.
ProjectBody(sp, pc, members) ==
  [SpCode |-> sp, projectCode |-> pc, name |-> "a", description |-> "a",
   teamLead |-> "a", members |-> members, status |-> "a"]

ProjectCreateBodies ==
  {ProjectBody(sp, pc, m) : sp \in SpCodes, pc \in ProjectCodes, m \in {"[m]", EmptyArray}}
    \cup {[ProjectBody("W1", "P1", "[m]") EXCEPT ![f] = v] :
            f \in {"SpCode", "projectCode"} \cup ProjectFields,
            v \in {Undefined, EmptyString}}

\* Variant: a test that also rejects an empty members list.
ProjectMissingOrEmptyMembers(body) ==
  \/ \E f \in {"SpCode", "projectCode"} \cup ProjectFields : Falsy(body[f])
  \/ body.members = EmptyArray

\* The handler's test of line 121: `!x` of each field.  An empty array is an
\* object, and every object is truthy.
ProjectMissing(body) ==
  \E f \in {"SpCode", "projectCode"} \cup ProjectFields : Falsy(body[f])

\* POST /api/space/:SpCode/projects/create (the handler reads SpCode from the
\* body; the path parameter is not used)
CreateProject(body) ==
  /\ Accept
  /\ IF ProjectMissing(body)
       THEN /\ last' = Response("createProject", NoParams, body, 400,
                                "Missing required fields", FALSE, NoDoc)
            /\ UNCHANGED <<projects, nextId, created>>
       ELSE \E fail \in FailChoices :
              LET newProject == [id |-> nextId, SpCode |-> body.SpCode,
                                 projectCode |-> body.projectCode, name |-> body.name,
                                 description |-> body.description,
                                 teamLead |-> body.teamLead, members |-> body.members,
                                 status |-> body.status, comments |-> <<>>]
              IN IF fail \/ DuplicateKey(projects, "projectCode", body.projectCode)
                   THEN /\ last' = Response("createProject", NoParams, body,
                                            CreateErrorStatus("createProject"),
                                            "Error creating project", TRUE, NoDoc)
                        /\ UNCHANGED <<projects, nextId, created>>
                   ELSE /\ projects' = projects \cup {newProject}
                        /\ nextId' = nextId + 1
                        /\ created' = created \cup
                             {[coll |-> "Projects", code |-> body.projectCode, id |-> nextId]}
                        /\ last' = Response("createProject", NoParams, body, 201, "",
                                            FALSE, newProject)
  /\ UNCHANGED <<spaces, tasks, pending, acked, omitUndefined, faults>>

\* The value a key of a $set leaves in the document.  The handlers pass every
\* updatable key, so a key absent from the body is passed as undefined:
\* Mongoose 6 and later strip such a key from the update, Mongoose 5 and
\* earlier send it and the driver stores it as null.
SetValue(old, v) ==
  IF v = Undefined THEN (IF omitUndefined THEN old ELSE Null) ELSE v

\* Variant: an update that replaces the document, comments included.
SetFieldsAndComments(doc, fields, body) ==
  [k \in DOMAIN doc |-> IF k \in fields THEN SetValue(doc[k], body[k])
                        ELSE IF k = "comments" THEN <<>> ELSE doc[k]]

\* { $set: body } on a document, over the updatable fields.
SetFields(doc, fields, body) ==
  [k \in DOMAIN doc |-> IF k \in fields THEN SetValue(doc[k], body[k]) ELSE doc[k]]

\* Variant: an update handler without its test.
NoFieldsUnchecked(body) == FALSE

\* The handlers' test for "No fields to update" (lines 138, 199).
NoFields(body) == \A f \in DOMAIN body : Falsy(body[f])

Only(fields, present) ==
  [f \in fields |-> IF f \in DOMAIN present THEN present[f] ELSE Undefined]

ProjectUpdateBodies ==
  { Only(ProjectFields, [none |-> Undefined]),
    Only(ProjectFields, [name |-> EmptyString, status |-> EmptyString]),
    Only(ProjectFields, [status |-> "b"]),
    Only(ProjectFields, [name |-> "b", members |-> EmptyArray]),
    Only(ProjectFields, [name |-> "b", description |-> EmptyString]) }

\* PUT /api/space/:SpCode/projects/:projectCode/update
UpdateProject(sp, pc, body) ==
  /\ Accept
  /\ LET p == [SpCode |-> sp, projectCode |-> pc] IN
     IF NoFields(body)
       THEN /\ last' = Response("updateProject", p, body, 400, "No fields to update",
                                FALSE, NoDoc)
            /\ UNCHANGED projects
       ELSE \E fail \in FailChoices :
              LET project == FindOne(projects, p)
                  updatedProject == SetFields(project, ProjectFields, body)
              IN IF fail
                   THEN /\ last' = Response("updateProject", p, body, 400,
                                            "Error updating project", TRUE, NoDoc)
                        /\ UNCHANGED projects
                 ELSE IF IsNoDoc(project)
                   THEN /\ last' = Response("updateProject", p, body, 404,
                                            "Project not found", FALSE, NoDoc)
                        /\ UNCHANGED projects
                   ELSE /\ projects' = (projects \ {project}) \cup {updatedProject}
                        /\ last' = Response("updateProject", p, body, 200, "", FALSE,
                                            updatedProject)
  /\ UNCHANGED <<spaces, tasks, nextId, pending, created, acked, omitUndefined, faults>>

\* Variant: a $set of the comments in place of the $push.
PushCommentReplace(doc, c) == [doc EXCEPT !.comments = <<c>>]

\* { $push: { comments: c } } on a document, and comments.push(c) on a
\* document in memory.
PushComment(doc, c) == [doc EXCEPT !.comments = Append(@, c)]

CommentTexts == {Undefined, EmptyString, "c"}

\* POST /api/space/:SpCode/projects/:projectCode/comments
AddProjectComment(sp, pc, comment) ==
  /\ Accept
  /\ LET p == [SpCode |-> sp, projectCode |-> pc]
         body == [comment |-> comment] IN
     IF Falsy(comment)
       THEN /\ last' = Response("addProjectComment", p, body, 400, "Comment is required",
                                FALSE, NoDoc)
            /\ UNCHANGED <<projects, nextId, acked>>
       ELSE \E fail \in FailChoices :
              LET found == FindOne(projects, p)
                  project == PushComment(found, [id |-> nextId, comment |-> comment])
              IN IF fail
                   THEN /\ last' = Response("addProjectComment", p, body, 400,
                                            "Error adding comment to project", TRUE, NoDoc)
                        /\ UNCHANGED <<projects, nextId, acked>>
                 ELSE IF IsNoDoc(found)
                   THEN /\ last' = Response("addProjectComment", p, body, 404,
                                            "Project not found", FALSE, NoDoc)
                        /\ UNCHANGED <<projects, nextId, acked>>
                   ELSE /\ projects' = (projects \ {found}) \cup {project}
                        /\ nextId' = nextId + 1
                        /\ acked' = acked \cup
                             {[coll |-> "Projects", id |-> found.id, cid |-> nextId]}
                        /\ last' = Response("addProjectComment", p, body, 200, "", FALSE,
                                            project)
  /\ UNCHANGED <<spaces, tasks, pending, created, omitUndefined, faults>>

\* ----------------------------------------------------------------- tasks
TaskFields ==
  {"title", "status", "assignedTo", "priority", "assignedBy", "description", "deadline"}

TaskKeys == {"SpCode", "projectId", "taskId"}

\* GET /api/space/:SpCode/tasks
ListTasks(sp) ==
  /\ Accept
  /\ \E fail \in FailChoices :
       last' = IF fail
                 THEN Response("listTasks", [SpCode |-> sp], NoBody, 500,
                               "Failed to fetch tasks", FALSE, NoDoc)
               ELSE Response("listTasks", [SpCode |-> sp], NoBody, 200, "", FALSE,
                             [id |-> 0, list |-> Matching(tasks, [SpCode |-> sp])])
  /\ UNCHANGED <<spaces, projects, tasks, nextId, pending, created, acked,
                 omitUndefined, faults>>

\* GET /api/space/:SpCode/tasks/:taskId
GetTask(sp, tid) ==
  /\ Accept
  /\ \E fail \in FailChoices :
       LET p == [SpCode |-> sp, taskId |-> tid]
           task == FindOne(tasks, p)
       IN last' = IF fail
                    THEN Response("getTask", p, NoBody, 500,
                                  "Error fetching task details", FALSE, NoDoc)
                  ELSE IF IsNoDoc(task)
                    THEN Response("getTask", p, NoBody, 404, "Task not found", FALSE, NoDoc)
                  ELSE Response("getTask", p, NoBody, 200, "", FALSE, task)
  /\ UNCHANGED <<spaces, projects, tasks, nextId, pending, created, acked,
                 omitUndefined, faults>>

\* A body with every required field of a task.
TaskBody(sp, tid) ==
  [SpCode |-> sp, projectId |-> "P1", taskId |-> tid, title |-> "a", status |-> "a",
   assignedTo |-> "a", priority |-> "a", assignedBy |-> "a", description |-> "a",
   deadline |-> "d1"]

TaskCreateBodies ==
  {TaskBody(sp, tid) : sp \in SpCodes, tid \in TaskIds}
    \cup {[TaskBody("W1", "T1") EXCEPT ![f] = Undefined] : f \in TaskKeys \cup TaskFields}
    \cup {[TaskBody("W1", "T1") EXCEPT !.title = EmptyString]}

\* POST /api/space/:SpCode/tasks/create (SpCode is read from the body)
CreateTask(body) ==
  /\ Accept
  /\ IF \E f \in TaskKeys \cup TaskFields : Falsy(body[f])
       THEN /\ last' = Response("createTask", NoParams, body, 400,
                                "Missing required fields", FALSE, NoDoc)
            /\ UNCHANGED <<tasks, nextId, created>>
       ELSE \E fail \in FailChoices :
              LET newTask == [k \in {"id", "comments"} \cup TaskKeys \cup TaskFields |->
                                IF k = "id" THEN nextId
                                ELSE IF k = "comments" THEN <<>> ELSE body[k]]
              IN IF fail \/ DuplicateKey(tasks, "taskId", body.taskId)
                   THEN /\ last' = Response("createTask", NoParams, body,
                                            CreateErrorStatus("createTask"),
                                            "Error creating task", TRUE, NoDoc)
                        /\ UNCHANGED <<tasks, nextId, created>>
                   ELSE /\ tasks' = tasks \cup {newTask}
                        /\ nextId' = nextId + 1
                        /\ created' = created \cup
                             {[coll |-> "Tasks", code |-> body.taskId, id |-> nextId]}
                        /\ last' = Response("createTask", NoParams, body, 201, "", FALSE,
                                            newTask)
  /\ UNCHANGED <<spaces, projects, pending, acked, omitUndefined, faults>>

TaskUpdateBodies ==
  { Only(TaskFields, [none |-> Undefined]),
    Only(TaskFields, [title |-> EmptyString, status |-> EmptyString]),
    Only(TaskFields, [status |-> "b"]),
    Only(TaskFields, [title |-> "b", deadline |-> "d2"]),
    Only(TaskFields, [priority |-> "b", description |-> EmptyString]) }

\* PUT /api/space/:SpCode/tasks/:taskId/update
UpdateTask(sp, tid, body) ==
  /\ Accept
  /\ LET p == [SpCode |-> sp, taskId |-> tid] IN
     IF NoFields(body)
       THEN /\ last' = Response("updateTask", p, body, 400, "No fields to update",
                                FALSE, NoDoc)
            /\ UNCHANGED tasks
       ELSE \E fail \in FailChoices :
              LET task == FindOne(tasks, p)
                  updatedTask == SetFields(task, TaskFields, body)
              IN IF fail
                   THEN /\ last' = Response("updateTask", p, body, 400,
                                            "Error updating task", TRUE, NoDoc)
                        /\ UNCHANGED tasks
                 ELSE IF IsNoDoc(task)
                   THEN /\ last' = Response("updateTask", p, body, 404, "Task not found",
                                            FALSE, NoDoc)
                        /\ UNCHANGED tasks
                   ELSE /\ tasks' = (tasks \ {task}) \cup {updatedTask}
                        /\ last' = Response("updateTask", p, body, 200, "", FALSE,
                                            updatedTask)
  /\ UNCHANGED <<spaces, projects, nextId, pending, created, acked, omitUndefined, faults>>

TaskCommentBodies ==
  { [author |-> "u", text |-> "c"],
    [author |-> Undefined, text |-> "c"],
    [author |-> "u", text |-> EmptyString] }

\* Variant: a filter on the taskId alone.
TaskFilterByIdOnly(sp, tid) == [taskId |-> tid]

\* The filter of the findOne of line 247.
TaskFilter(sp, tid) == [SpCode |-> sp, taskId |-> tid]

\* POST /api/space/:SpCode/tasks/:taskId/comments, up to its findOne (lines
\* 241-250): the request validates, reads the task and pushes the comment onto
\* the document it holds in memory.
AddTaskCommentFind(sp, tid, body) ==
  /\ Accept
  /\ LET p == [SpCode |-> sp, taskId |-> tid] IN
     IF Falsy(body.author) \/ Falsy(body.text)
       THEN /\ last' = Response("addTaskComment", p, body, 400,
                                "Author, and text are required", FALSE, NoDoc)
            /\ UNCHANGED <<nextId, pending>>
       ELSE \E fail \in FailChoices :
              LET found == FindOne(tasks, TaskFilter(sp, tid))
                  c == [id |-> nextId, author |-> body.author, text |-> body.text]
              IN IF fail
                   THEN /\ last' = Response("addTaskComment", p, body, 400,
                                            "Error adding comment to task", TRUE, NoDoc)
                        /\ UNCHANGED <<nextId, pending>>
                 ELSE IF IsNoDoc(found)
                   THEN /\ last' = Response("addTaskComment", p, body, 404,
                                            "Task not found", FALSE, NoDoc)
                        /\ UNCHANGED <<nextId, pending>>
                   ELSE /\ pending' = pending \cup
                             {[params |-> p, body |-> body, comment |-> c,
                               task |-> PushComment(found, c)]}
                        /\ nextId' = nextId + 1
                        /\ UNCHANGED last
  /\ UNCHANGED <<spaces, projects, tasks, created, acked, omitUndefined, faults>>

\* Variant: a save that writes the whole in-memory document back.
SaveWholeDocument(stored, doc, c) == doc

\* What task.save() leaves in the store for a document that was loaded by
\* findOne and whose only change is comments.push(c).  Mongoose saves a loaded
\* document by sending the changes made to it, and records a push onto an
\* array as the atomic operator: updateOne({_id}, {$push: {comments: c}}).
\* The stored document is the store's current one with c appended; the fields
\* the request read earlier are not written back.
Save(stored, doc, c) == PushComment(stored, c)

\* The same handler from its save to its response (lines 251-253).  The
\* response is the document the request holds in memory.
AddTaskCommentSave(r) ==
  /\ r \in pending
  /\ pending' = pending \ {r}
  /\ \E fail \in FailChoices :
       LET stored == FindOne(tasks, [id |-> r.task.id])
       IN IF fail
            THEN /\ last' = Response("addTaskComment", r.params, r.body, 400,
                                     "Error adding comment to task", TRUE, NoDoc)
                 /\ UNCHANGED <<tasks, acked>>
            ELSE /\ tasks' = (tasks \ {stored}) \cup {Save(stored, r.task, r.comment)}
                 /\ acked' = acked \cup
                      {[coll |-> "Tasks", id |-> r.task.id, cid |-> r.comment.id]}
                 /\ last' = Response("addTaskComment", r.params, r.body, 200, "", FALSE,
                                     r.task)
  /\ UNCHANGED <<spaces, projects, nextId, created, nreq, omitUndefined, faults>>

\* ------------------------------------------------------- the state machine
\* The server starts on an empty database with no request answered.  Which
\* Mongoose major version is installed is fixed for the run.
InitStore ==
  /\ spaces = {} /\ projects = {} /\ tasks = {}
  /\ nextId = 1
  /\ pending = {}
  /\ last = Response("none", NoParams, NoBody, 0, "", FALSE, NoDoc)
  /\ created = {} /\ acked = {}
  /\ nreq = 0
  /\ omitUndefined \in BOOLEAN

Init == InitStore /\ faults = FALSE

InitFault == InitStore /\ faults = TRUE

Next ==
  \/ \E sp \in SpCodes : GetSpace(sp)
  \/ \E body \in SpaceCreateBodies : CreateSpace(body)
  \/ \E sp \in SpCodes : ListProjects(sp)
  \/ \E sp \in SpCodes, pc \in ProjectCodes : GetProject(sp, pc)
  \/ \E body \in ProjectCreateBodies : CreateProject(body)
  \/ \E sp \in SpCodes, pc \in ProjectCodes, body \in ProjectUpdateBodies :
       UpdateProject(sp, pc, body)
  \/ \E sp \in SpCodes, pc \in ProjectCodes, c \in CommentTexts :
       AddProjectComment(sp, pc, c)
  \/ \E sp \in SpCodes : ListTasks(sp)
  \/ \E sp \in SpCodes, tid \in TaskIds : GetTask(sp, tid)
  \/ \E body \in TaskCreateBodies : CreateTask(body)
  \/ \E sp \in SpCodes, tid \in TaskIds, body \in TaskUpdateBodies :
       UpdateTask(sp, tid, body)
  \/ \E sp \in SpCodes, tid \in TaskIds, body \in TaskCommentBodies :
       AddTaskCommentFind(sp, tid, body)
  \/ \E r \in pending : AddTaskCommentSave(r)

Spec == Init /\ [][Next]_vars

SpecFault == InitFault /\ [][Next]_vars

\* ------------------------------------------------------------ properties
\* A step that answers a request: a one-call handler ran, or a task comment
\* request finished its save.  (The findOne step of a task comment request
\* accepts a request without answering it.)
Responded ==
  \/ nreq' # nreq /\ pending' = pending
  \/ nreq' = nreq /\ pending' # pending

Truthy(v) == v \notin {Undefined, Null, EmptyString}

WithId(coll, id) == {d \in coll : d.id = id}

IsPrefix(s, t) == Len(s) <= Len(t) /\ \A i \in 1..Len(s) : t[i] = s[i]

Occurrences(comments, cid) == Cardinality({i \in 1..Len(comments) : comments[i].id = cid})

\* C1: a create workspace request with non-empty SpCode and name answers 201
\* and stores the workspace when no workspace has that SpCode, and answers 400
\* and leaves the collection as it was when one has; and a get workspace for
\* the SpCode of a workspace created with 201 answers 200 with that workspace.
C1_CreateThenGet ==
  [][ /\ (Responded /\ last'.op = "createSpace"
            /\ Truthy(last'.body.SpCode) /\ Truthy(last'.body.name))
         => IF \E d \in spaces : d.SpCode = last'.body.SpCode
              THEN last'.status = 400 /\ spaces' = spaces
              ELSE /\ last'.status = 201
                   /\ last'.doc \in spaces'
                   /\ last'.doc.SpCode = last'.body.SpCode
                   /\ last'.doc.name = last'.body.name
                   /\ spaces' = spaces \cup {last'.doc}
      /\ (Responded /\ last'.op = "getSpace")
         => \A c \in created :
              (c.coll = "Spaces" /\ c.code = last'.params.SpCode)
              => /\ last'.status = 200
                 /\ last'.doc \in spaces
                 /\ last'.doc.id = c.id
                 /\ last'.doc.SpCode = c.code ]_vars

\* A create with the SpCode of a stored workspace and another name was
\* answered 400, and the stored workspace has the name it was created with.
C1_Witness ==
  /\ last.op = "createSpace" /\ last.status = 400 /\ last.details
  /\ \E d \in spaces : d.SpCode = last.body.SpCode /\ d.name # last.body.name

\* C2: no two workspaces share an SpCode, no two projects a projectCode, no
\* two tasks a taskId, and no code was answered 201 by two create requests.
C2_UniqueCodes ==
  /\ \A d, e \in spaces : d.SpCode = e.SpCode => d = e
  /\ \A d, e \in projects : d.projectCode = e.projectCode => d = e
  /\ \A d, e \in tasks : d.taskId = e.taskId => d = e
  /\ \A c, e \in created : (c.coll = e.coll /\ c.code = e.code) => c = e

\* A project create was rejected because its projectCode is stored under
\* another workspace.
C2_Witness ==
  /\ last.op = "createProject" /\ last.status = 400 /\ last.details
  /\ \E d \in projects :
       d.projectCode = last.body.projectCode /\ d.SpCode # last.body.SpCode

\* C3: an update project or update task request whose body has none of the
\* updatable fields answers 400 "No fields to update" and leaves every stored
\* document as it was, whether or not the addressed document exists.
C3_EmptyUpdate ==
  [][ (Responded /\ last'.op \in {"updateProject", "updateTask"}
         /\ \A f \in DOMAIN last'.body : last'.body[f] = Undefined)
      => /\ last'.status = 400
         /\ last'.error = "No fields to update"
         /\ store' = store ]_vars

\* An empty update was answered for a task that exists.
C3_Witness ==
  /\ last.op = "updateTask" /\ last.status = 400
  /\ \A f \in DOMAIN last.body : last.body[f] = Undefined
  /\ \E t \in tasks : t.SpCode = last.params.SpCode /\ t.taskId = last.params.taskId

\* C4: an update answered 200 replaces the fields present in the body, leaves
\* every updatable field absent from the body at its stored value, and answers
\* with the stored document.
C4_PartialUpdate ==
  [][ (Responded /\ last'.op \in {"updateProject", "updateTask"} /\ last'.status = 200)
      => LET coll == IF last'.op = "updateProject" THEN projects ELSE tasks
             coll2 == IF last'.op = "updateProject" THEN projects' ELSE tasks'
         IN /\ last'.doc \in coll2
            /\ \A d \in WithId(coll, last'.doc.id) :
                 \A f \in DOMAIN last'.body :
                   last'.doc[f] = IF last'.body[f] = Undefined THEN d[f]
                                  ELSE last'.body[f] ]_vars

\* C5: an add task comment request with author and text, addressed to a
\* (SpCode, taskId) no task has, answers 404 and leaves the tasks as they
\* were; only a request whose addressed task exists goes on to its save.
C5_CommentOnAbsentTask ==
  [][ /\ (Responded /\ last'.op = "addTaskComment"
            /\ Truthy(last'.body.author) /\ Truthy(last'.body.text)
            /\ ~ \E t \in tasks : /\ t.SpCode = last'.params.SpCode
                                  /\ t.taskId = last'.params.taskId)
         => last'.status = 404 /\ tasks' = tasks
      /\ \A r \in pending' \ pending :
           /\ tasks' = tasks
           /\ \E t \in tasks : /\ t.SpCode = r.params.SpCode
                               /\ t.taskId = r.params.taskId
                               /\ t.id = r.task.id ]_vars

\* A comment addressed to a taskId stored under another SpCode was answered 404.
C5_Witness ==
  /\ last.op = "addTaskComment" /\ last.status = 404
  /\ \E t \in tasks : t.taskId = last.params.taskId /\ t.SpCode # last.params.SpCode

\* C6: the comments of a stored project only grow at the end; an add project
\* comment answered 200 appends its comment to the stored project, changes
\* nothing else of it (no update made in between is lost) and answers with the
\* stored document; every project comment answered 200 is stored exactly once.
C6_AtomicProjectComment ==
  [][ /\ \A d \in projects : \E e \in projects' :
           e.id = d.id /\ IsPrefix(d.comments, e.comments)
      /\ (Responded /\ last'.op = "addProjectComment" /\ last'.status = 200)
         => /\ last'.doc \in projects'
            /\ \A d \in WithId(projects, last'.doc.id) :
                 /\ projects' = (projects \ {d}) \cup {last'.doc}
                 /\ Len(last'.doc.comments) = Len(d.comments) + 1
                 /\ last'.doc.comments[Len(last'.doc.comments)].comment
                      = last'.body.comment
                 /\ \A k \in DOMAIN d : k # "comments" => last'.doc[k] = d[k]
      /\ \A a \in acked' :
           a.coll = "Projects"
           => \E d \in WithId(projects', a.id) : Occurrences(d.comments, a.cid) = 1
    ]_vars

\* A project was updated and then commented: the comment and the update are
\* both stored.
C6_Witness ==
  /\ last.op = "addProjectComment" /\ last.status = 200
  /\ last.doc \in projects
  /\ Len(last.doc.comments) = 1
  /\ last.doc.status = "b"
  /\ \E a \in acked : a.coll = "Projects" /\ a.id = last.doc.id

\* C7 as claimed: add task comment writes back the document it read with the
\* comment pushed onto it, so after its save answers 200 the stored task is
\* the document the request holds.
C7_WritesBackWhatItRead ==
  [][ (Responded /\ last'.op = "addTaskComment" /\ last'.status = 200)
      => last'.doc \in tasks' ]_vars

\* C7 as amended: the save of add task comment sends only the pushed comment.
\* Every task comment answered 200 is stored exactly once, and the save
\* changes no field of the stored task other than comments, which it extends
\* by its comment; an update task leaves the comments as they are.  No
\* interleaving loses a comment or reverts an update.
C7_NoLostUpdate ==
  [][ /\ \A a \in acked' :
           a.coll = "Tasks"
           => \E t \in WithId(tasks', a.id) : Occurrences(t.comments, a.cid) = 1
      /\ (Responded /\ last'.op = "addTaskComment" /\ last'.status = 200)
         => \A t \in WithId(tasks, last'.doc.id) :
              \E u \in tasks' :
                /\ tasks' = (tasks \ {t}) \cup {u}
                /\ \A k \in DOMAIN t : k # "comments" => u[k] = t[k]
                /\ Len(u.comments) = Len(t.comments) + 1
                /\ IsPrefix(t.comments, u.comments)
                /\ u.comments[Len(u.comments)].text = last'.body.text
      /\ (Responded /\ last'.op = "updateTask" /\ last'.status = 200)
         => \A t \in WithId(tasks, last'.doc.id) : last'.doc.comments = t.comments
    ]_vars

\* Two comment requests read the same task before either saved: both
\* comments are stored, and the response of the second save is the document
\* it read, which lacks the other comment.
C7_Witness ==
  /\ last.op = "addTaskComment" /\ last.status = 200
  /\ Len(last.doc.comments) = 1
  /\ \E t \in WithId(tasks, last.doc.id) :
       /\ Len(t.comments) = 2
       /\ Cardinality({a \in acked : a.coll = "Tasks" /\ a.id = t.id}) = 2

\* C8 as claimed: create project answers 400 "Missing required fields" when a
\* required field is absent or falsy or members is an empty list, and answers
\* 201 only when all seven are present and members is a non-empty list.
C8_EmptyMembersRejected ==
  last.op = "createProject"
  => LET missing == \/ \E f \in DOMAIN last.body : ~Truthy(last.body[f])
                    \/ last.body.members = EmptyArray
     IN /\ missing => (last.status = 400 /\ last.error = "Missing required fields")
        /\ last.status = 201 => ~missing

\* C8 as amended: create project answers 400 "Missing required fields" and
\* stores nothing when a required field is absent or falsy; an empty members
\* list is not falsy.  When all seven are truthy, members an empty list
\* included, it answers 201 with the stored project unless the projectCode is
\* already stored.
C8_MissingFields ==
  [][ (Responded /\ last'.op = "createProject")
      => LET missing == \E f \in DOMAIN last'.body : ~Truthy(last'.body[f])
         IN /\ missing => /\ last'.status = 400
                          /\ last'.error = "Missing required fields"
                          /\ projects' = projects
            /\ last'.status = 201 => ~missing
            /\ (~missing /\ ~ \E d \in projects : d.projectCode = last'.body.projectCode)
               => /\ last'.status = 201
                  /\ last'.doc \in projects'
                  /\ \A f \in DOMAIN last'.body : last'.doc[f] = last'.body[f] ]_vars

\* A project was created with an empty members list.
C8_Witness ==
  /\ last.op = "createProject" /\ last.status = 201
  /\ last.body.members = EmptyArray
  /\ last.doc \in projects

WriteOps ==
  {"createSpace", "createProject", "createTask", "updateProject", "updateTask",
   "addProjectComment", "addTaskComment"}

\* C9: a write whose store call fails (a duplicate code included) answers 400
\* with the store's message in details, never 500; a read whose store call
\* fails answers 500.
C9_WriteFailureIs400 ==
  /\ (last.op \in WriteOps /\ last.details) => last.status = 400
  /\ last.op \in WriteOps => last.status # 500
  /\ (last.op \notin WriteOps /\ last.status \notin {0, 200, 404}) => last.status = 500

\* C10: no step removes a document or changes its SpCode, projectCode, taskId
\* or projectId; update and add comment requests add no document; update
\* requests leave the comments as they are.
C10_DocumentsPersist ==
  [][ /\ \A d \in spaces : d \in spaces'
      /\ \A d \in projects : \E e \in projects' :
           e.id = d.id /\ e.SpCode = d.SpCode /\ e.projectCode = d.projectCode
      /\ \A t \in tasks : \E u \in tasks' :
           /\ u.id = t.id /\ u.SpCode = t.SpCode
           /\ u.taskId = t.taskId /\ u.projectId = t.projectId
      /\ (Responded /\ last'.op \in {"updateProject", "updateTask",
                                      "addProjectComment", "addTaskComment"})
         => /\ spaces' = spaces
            /\ Cardinality(projects') = Cardinality(projects)
            /\ Cardinality(tasks') = Cardinality(tasks)
      /\ pending' # pending => Cardinality(tasks') = Cardinality(tasks)
      /\ (Responded /\ last'.op \in {"updateProject", "updateTask"})
         => /\ \A d \in projects : \A e \in WithId(projects', d.id) :
                 e.comments = d.comments
            /\ \A t \in tasks : \A u \in WithId(tasks', t.id) :
                 u.comments = t.comments ]_vars

\* A commented project was updated: the comment is still there and a field
\* has its new value.
C10_Witness ==
  /\ last.op = "updateProject" /\ last.status = 200
  /\ Len(last.doc.comments) = 1
  /\ last.doc.name = "b"
  /\ last.doc \in projects

====
